---- MODULE Spec2Model ----
(***************************************************************************)
(* A model of the urban-mobility batch pipeline: streaming of the raw CSV   *)
(* files into chunks, cleaning and merging of CDR / GPS chunks, hourly     *)
(* aggregation (OD flows, grid speed), lag and rolling feature             *)
(* construction, anomaly labelling, and the scripts that call the stages.  *)
(*                                                                         *)
(* Representation                                                          *)
(*   - a string column value (user_id, tower_id, grid_id) is a tuple of    *)
(*     one-character strings, so that formatting, concatenation and the    *)
(*     lexicographic order pandas sorts by are computed, not assumed;      *)
(*   - a missing object value (None / NaN in an object column) is Null;    *)
(*   - a timestamp is [utc |-> instant in ticks, tz |-> zone name]; one    *)
(*     tick is half an hour, the resolution Asia/Kolkata's +05:30 needs;   *)
(*   - a float cell is NaN or an exact rational <<num, den>> in lowest     *)
(*     terms (floating-point rounding error is not modelled);              *)
(*   - a file is a sequence of rows (records); fs maps the paths that      *)
(*     exist to their contents.                                            *)
(***************************************************************************)
EXTENDS Integers, Sequences, FiniteSets, TLC

VARIABLES
    fs,       \* the files under data/raw and data/processed: path -> rows
    ret,      \* how the most recent stage call ended
    caller,   \* the running script's __main__ block and its position
    df_raw,   \* create_lag_and_rolling_features: df before the fill loop
    df_ret    \* create_lag_and_rolling_features: the df it returned

vars == <<fs, ret, caller, df_raw, df_ret>>

(***************************************************************************)
(* Bounds of the model.                                                    *)
(***************************************************************************)
MaxEvents == 3

MaxPoints == 2

MaxRows == 3

MaxChunkRows == 2

\* rows of a raw CSV file
MaxRawRows == 3

(***************************************************************************)
(* Strings as tuples of characters, ordered as Python orders str.          *)
(***************************************************************************)
Null == <<>>

CharCode(c) ==
    CASE c = "." -> 46
      [] c = "0" -> 48 [] c = "1" -> 49 [] c = "2" -> 50 [] c = "3" -> 51
      [] c = "4" -> 52 [] c = "5" -> 53 [] c = "6" -> 54 [] c = "7" -> 55
      [] c = "8" -> 56 [] c = "9" -> 57
      [] c = "A" -> 65 [] c = "B" -> 66 [] c = "C" -> 67
      [] c = "D" -> 68 [] c = "U" -> 85
      [] c = "_" -> 95

\* the sort key of a string: its character codes
StrKey(s) == [i \in DOMAIN s |-> CharCode(s[i])]

RECURSIVE IntSeqLess(_, _)
\* lexicographic order on tuples of integers (a proper prefix comes first)
IntSeqLess(a, b) ==
    IF b = <<>> THEN FALSE
    ELSE IF a = <<>> THEN TRUE
    ELSE IF Head(a) # Head(b) THEN Head(a) < Head(b)
    ELSE IntSeqLess(Tail(a), Tail(b))

StrLess(a, b) == IntSeqLess(StrKey(a), StrKey(b))

RECURSIVE KeyLess(_, _)
\* a sort key is one tuple of integers per sort column, compared column by
\* column
KeyLess(k1, k2) ==
    IF k1 = <<>> \/ k2 = <<>> THEN FALSE
    ELSE IF Head(k1) # Head(k2) THEN IntSeqLess(Head(k1), Head(k2))
    ELSE KeyLess(Tail(k1), Tail(k2))

(***************************************************************************)
(* Timestamps.                                                             *)
(***************************************************************************)
TicksPerHour == 2

KolkataOffset == 11

UtcOffset(tz) == IF tz = "Asia/Kolkata" THEN KolkataOffset ELSE 0

\* pd.to_datetime(col, utc=True).dt.tz_convert("Asia/Kolkata"): the instant
\* is kept, the zone the wall clock is read in changes.
ToKolkata(ts) == [utc |-> ts.utc, tz |-> "Asia/Kolkata"]

\* mutant: the hour floored on the UTC clock, whatever the zone
FloorHourUtc(ts) == [utc |-> ts.utc - (ts.utc % TicksPerHour), tz |-> ts.tz]

\* Series.dt.floor("h") floors the wall-clock time of the timestamp's zone.
FloorHour(ts) ==
    LET wall == ts.utc + UtcOffset(ts.tz)
    IN  [utc |-> (wall - (wall % TicksPerHour)) - UtcOffset(ts.tz), tz |-> ts.tz]

(***************************************************************************)
(* Float cells: NaN, or an exact rational in lowest terms.                 *)
(***************************************************************************)
NaN == <<>>

RECURSIVE Gcd(_, _)
Gcd(a, b) == IF b = 0 THEN a ELSE Gcd(b, a % b)

Abs(x) == IF x < 0 THEN -x ELSE x

\* num / den with den > 0
Frac(num, den) ==
    LET g == Gcd(Abs(num), den) IN <<num \div g, den \div g>>

Num(v) == Frac(v, 1)

FracAdd(a, b) == Frac(a[1] * b[2] + b[1] * a[2], a[2] * b[2])

FracSub(a, b) == Frac(a[1] * b[2] - b[1] * a[2], a[2] * b[2])

FracMul(a, b) == Frac(a[1] * b[1], a[2] * b[2])

FracDivInt(a, n) == Frac(a[1], a[2] * n)

RECURSIVE FracSum(_, _)
\* the sum of the cells of col at the indices idx
FracSum(col, idx) ==
    IF idx = {} THEN Num(0)
    ELSE LET i == CHOOSE x \in idx : TRUE
         IN  FracAdd(col[i], FracSum(col, idx \ {i}))

(***************************************************************************)
(* Coordinates are held in thousandths of a degree.                        *)
(***************************************************************************)
\* Series.round(2): to hundredths of a degree, halves to the even neighbour
Round2(milli) ==
    LET q == milli \div 10
        r == milli % 10
    IN  IF r < 5 THEN q
        ELSE IF r > 5 THEN q + 1
        ELSE IF q % 2 = 0 THEN q ELSE q + 1

Digit(d) ==
    CASE d = 0 -> "0" [] d = 1 -> "1" [] d = 2 -> "2" [] d = 3 -> "3"
      [] d = 4 -> "4" [] d = 5 -> "5" [] d = 6 -> "6" [] d = 7 -> "7"
      [] d = 8 -> "8" [] d = 9 -> "9"

RECURSIVE IntStr(_)
IntStr(n) == IF n < 10 THEN <<Digit(n)>> ELSE IntStr(n \div 10) \o <<Digit(n % 10)>>

\* astype(str) of a float with at most two decimals, given in hundredths:
\* 2680 -> "26.8", 2681 -> "26.81", 8100 -> "81.0"
FloatStr(centi) ==
    LET frac == centi % 100
    IN  IntStr(centi \div 100) \o <<".">> \o
        (IF frac % 10 = 0 THEN <<Digit(frac \div 10)>>
         ELSE <<Digit(frac \div 10), Digit(frac % 10)>>)

(***************************************************************************)
(* Generic table helpers.                                                  *)
(***************************************************************************)
\* a column, or a frame row by row, as pandas holds it: an array with one
\* cell per row
Series(f) == f \o <<>>

\* the columns of one family, by lag or by window
Columns(f) == f @@ <<>>

RECURSIVE SelectRows(_, _)
\* boolean-mask selection df[mask]: the rows whose index is in keep, in
\* their order
SelectRows(rows, keep) ==
    IF rows = <<>> THEN <<>>
    ELSE LET n == Len(rows)
             init == SelectRows(SubSeq(rows, 1, n - 1), keep)
         IN  IF n \in keep THEN Append(init, rows[n]) ELSE init

RECURSIVE InsertSorted(_, _, _)
\* index i goes after every index whose key is not greater (stable)
InsertSorted(perm, i, keys) ==
    IF perm = <<>> THEN <<i>>
    ELSE IF KeyLess(keys[i], keys[Head(perm)])
         THEN <<i>> \o perm
         ELSE <<Head(perm)>> \o InsertSorted(Tail(perm), i, keys)

RECURSIVE ArgSortUpTo(_, _)
ArgSortUpTo(keys, n) ==
    IF n = 0 THEN <<>> ELSE InsertSorted(ArgSortUpTo(keys, n - 1), n, keys)

\* the stable sort permutation of a table whose rows have the given keys
ArgSort(keys) == ArgSortUpTo(keys, Len(keys))

\* DataFrame.sort_values(by=[...]) on several columns: stable, ascending
SortValues(rows, keys) ==
    LET perm == ArgSort(keys) IN Series([i \in DOMAIN perm |-> rows[perm[i]]])

\* groupby(..., sort=True): one representative row index per distinct key,
\* the keys ascending
GroupFirsts(keys) ==
    LET perm == ArgSort(keys)
        firsts == {i \in DOMAIN perm :
                      i = 1 \/ keys[perm[i]] # keys[perm[i - 1]]}
    IN  SelectRows(perm, firsts)

RECURSIVE ConcatAll(_)
\* pd.concat(df_list, ignore_index=True)
ConcatAll(tables) ==
    IF tables = <<>> THEN <<>> ELSE Head(tables) \o ConcatAll(Tail(tables))

(***************************************************************************)
(* The file system.  A path is <<folder, name>>; a name is the tuple of    *)
(* the pieces it is formatted from, so "<stem>_cleaned" is the stem with   *)
(* one more piece.                                                         *)
(***************************************************************************)
Path(folder, name) == <<folder, name>>

Exists(p) == p \in DOMAIN fs

\* the rows added to the end of a file that is there
AppendFile(files, p, rows) ==
    [q \in (DOMAIN files) \cup {p} |->
        IF q # p THEN files[q]
        ELSE IF p \in DOMAIN files THEN files[p] \o rows ELSE rows]

\* DataFrame.to_parquet(path): create or overwrite
WriteFile(files, p, rows) ==
    [q \in (DOMAIN files) \cup {p} |-> IF q = p THEN rows ELSE files[q]]

\* a folder is held as the entry <<folder, <<>>>>; the processed folder itself
\* always exists
Dir(folder) == <<folder, <<>>>>

DirExists(folder) == Dir(folder) \in DOMAIN fs

\* folder.mkdir(parents=True, exist_ok=True)
Mkdir(files, folder) ==
    [q \in (DOMAIN files) \cup {Dir(folder)} |->
        IF q \in DOMAIN files THEN files[q] ELSE <<>>]

\* folder.glob("*.parquet")
Glob(folder) == {p \in DOMAIN fs : p[1] = folder /\ p # Dir(folder)}

\* chunk files are named <raw stem>_chunk_<idx:03d>
ChunkIndex(stem) ==
    CASE stem = "chunk_000" -> 0 [] stem = "chunk_001" -> 1
      [] stem = "chunk_002" -> 2 [] stem = "chunk_003" -> 3

\* sorted(folder.glob("*.parquet")): zero-padded indices order the names
RECURSIVE SortedPaths(_)
SortedPaths(paths) ==
    IF paths = {} THEN <<>>
    ELSE LET p == CHOOSE x \in paths :
                     \A y \in paths : ChunkIndex(x[2][1]) <= ChunkIndex(y[2][1])
         IN  <<p>> \o SortedPaths(paths \ {p})

\* f"{parquet_path.stem}_cleaned.parquet"
CleanedName(name) == name \o <<"_cleaned">>

CdrMergedPath == Path("processed", <<"cdr_merged">>)
OdFlowsPath == Path("processed", <<"od_flows">>)
GpsMergedPath == Path("processed", <<"gps_merged">>)
GpsSpeedPath == Path("processed", <<"gps_speed_features">>)
OdEngineeredPath == Path("processed", <<"od_flows_engineered">>)
GpsEngineeredPath == Path("processed", <<"gps_speed_features_engineered">>)
HourlyCsvPath == Path("processed", <<"hourly_anomalies">>)
HourlyModelPath == Path("processed", <<"isolation_forest_model">>)
HourlyPlotPath == Path("processed", <<"hourly_anomalies_plot">>)
GpsCsvPath == Path("processed", <<"gps_speed_anomalies">>)
GpsModelPath == Path("processed", <<"gps_isolation_forest_model">>)
GpsPlotPath == Path("processed", <<"gps_speed_anomalies_plot">>)

(***************************************************************************)
(* How a stage call ends.  A stage that returns returns None; what tells a  *)
(* skipped call from a completed one is the message it printed and the     *)
(* files it wrote.  A stage that raises leaves the exception to its        *)
(* caller.                                                                 *)
(***************************************************************************)
\* mutant: the call ends in an exception instead of a return
RaisedInstead(stage, msg, wrote) ==
    [stage |-> stage, how |-> "raise", printed |-> msg, wrote |-> wrote]

Returned(stage, msg, wrote) ==
    [stage |-> stage, how |-> "return", printed |-> msg, wrote |-> wrote]

Raised(stage, exc) ==
    [stage |-> stage, how |-> "raise", printed |-> exc, wrote |-> {}]

\* the call raised exc after the files of wrote were written
Failed(stage, exc, wrote) ==
    [stage |-> stage, how |-> "raise", printed |-> exc, wrote |-> wrote]

NoCall == [stage |-> "none", how |-> "none", printed |-> "none", wrote |-> {}]

(***************************************************************************)
(* streamer.py                                                             *)
(***************************************************************************)
\* line 11, scaled down to the rows a chunk holds here
CHUNK_SIZE == MaxChunkRows

\* lines 71, 73: one raw CSV file of each kind
RawCdrPath == Path("raw", <<"cdr_lucknow">>)

RawGpsPath == Path("raw", <<"gps_lucknow">>)

\* the timestamp text of a CSV row: a wall-clock time, or text that is not in
\* the format "%Y-%m-%d %H:%M:%S"
Naive(t) == [text |-> "wall-clock", naive |-> t]

Malformed == [text |-> "malformed", naive |-> 0]

\* lines 40, 42: to_datetime(format="%Y-%m-%d %H:%M:%S", utc=True) reads the
\* wall-clock text of the CSV as a UTC instant
ParseUtc(text) == [utc |-> text.naive, tz |-> "UTC"]

\* lines 40, 42: to_datetime raises ValueError on a chunk that holds text
\* which does not match the format
Parses(chunk) == \A i \in DOMAIN chunk : chunk[i].timestamp.text = "wall-clock"

\* line 32: the chunks read_csv(chunksize=CHUNK_SIZE) yields
NumChunks(rows) == (Len(rows) + CHUNK_SIZE - 1) \div CHUNK_SIZE

\* line 32: chunk idx, counted from 0
CsvChunk(rows, idx) ==
    LET last == IF (idx + 1) * CHUNK_SIZE < Len(rows)
                THEN (idx + 1) * CHUNK_SIZE ELSE Len(rows)
    IN  SubSeq(rows, idx * CHUNK_SIZE + 1, last)

\* lines 38-47: timestamps parsed; GPS points cut to the bounding box
LightCleaning(kind, chunk) ==
    LET parsed == Series([i \in DOMAIN chunk |->
                     [chunk[i] EXCEPT !.timestamp = ParseUtc(@)]])
    IN  IF kind = "cdr" THEN parsed
        ELSE SelectRows(parsed, {i \in DOMAIN parsed :
                 /\ parsed[i].latitude >= 26800 /\ parsed[i].latitude <= 26920
                 /\ parsed[i].longitude >= 80900 /\ parsed[i].longitude <= 81020})

\* line 51: f"{chunk_name}_chunk_{idx:03d}"
ChunkStem(idx) ==
    CASE idx = 0 -> "chunk_000" [] idx = 1 -> "chunk_001"
      [] idx = 2 -> "chunk_002" [] idx = 3 -> "chunk_003"

\* lines 30, 51
ChunkPath(kind, idx) == Path(kind, <<ChunkStem(idx)>>)

\* lines 32-53: the files once the first n chunks are written
RECURSIVE WriteChunks(_, _, _, _)
WriteChunks(files, kind, rows, n) ==
    IF n = 0 THEN files
    ELSE WriteFile(WriteChunks(files, kind, rows, n - 1), ChunkPath(kind, n - 1),
                   LightCleaning(kind, CsvChunk(rows, n - 1)))

\* lines 13-16
EnsureProcessedFoldersExist(files) == Mkdir(Mkdir(files, "cdr"), "gps")

\* line 32: the chunks read and written before the first one that does not
\* parse, all n of them if every chunk parses
RECURSIVE ChunksBeforeError(_, _, _)
ChunksBeforeError(rows, idx, n) ==
    IF idx = n \/ ~Parses(CsvChunk(rows, idx)) THEN idx
    ELSE ChunksBeforeError(rows, idx + 1, n)

\* lines 18-55, called on files: a chunk is on the disk (line 52) before the
\* next one is read and parsed
StreamCsvToParquet(files, raw_file, kind) ==
    /\ LET rows == files[raw_file]
           n == NumChunks(rows)
           written == ChunksBeforeError(rows, 0, n)
       IN  /\ fs' = WriteChunks(files, kind, rows, written)
           /\ ret' = IF written < n
                     THEN Failed("stream_csv_to_parquet", "ValueError",
                                 {ChunkPath(kind, i) : i \in 0..(written - 1)})
                     ELSE Returned("stream_csv_to_parquet", "Done streaming",
                                   {ChunkPath(kind, i) : i \in 0..(n - 1)})
    /\ UNCHANGED <<df_raw, df_ret>>

(***************************************************************************)
(* transform.py                                                            *)
(***************************************************************************)
\* lines 8-10: timestamps to Asia/Kolkata, rows without a tower dropped
TransformCdrRows(rows) ==
    LET conv == Series([i \in DOMAIN rows |->
                    [rows[i] EXCEPT !.timestamp = ToKolkata(@)]])
    IN  SelectRows(conv, {i \in DOMAIN conv : conv[i].tower_id # Null})

\* the cleaned rows written over the chunk they were read from
TransformCdrInPlace(files, p) == WriteFile(files, p, TransformCdrRows(files[p]))

\* lines 7-15: the files once transform_cdr_chunk(p) has returned
TransformCdrChunk(files, p) ==
    WriteFile(Mkdir(files, "cdr_cleaned"),
              Path("cdr_cleaned", CleanedName(p[2])), TransformCdrRows(files[p]))

\* lines 19-20: the points inside the bounding box (in thousandths of a
\* degree, both ends included), timestamps to Asia/Kolkata
TransformGpsRows(rows) ==
    LET kept == SelectRows(rows, {i \in DOMAIN rows :
                    /\ rows[i].latitude >= 26800 /\ rows[i].latitude <= 26920
                    /\ rows[i].longitude >= 80900 /\ rows[i].longitude <= 81020})
    IN  [i \in DOMAIN kept |-> [kept[i] EXCEPT !.timestamp = ToKolkata(@)]]

\* lines 17-25: the files once transform_gps_chunk(p) has returned
TransformGpsChunk(files, p) ==
    WriteFile(Mkdir(files, "gps_cleaned"),
              Path("gps_cleaned", CleanedName(p[2])), TransformGpsRows(files[p]))

\* lines 35-36: for p in cdr_chunk_paths: transform_cdr_chunk(p); every call
\* writes a file of its own, so the order of the glob does not show in the
\* files
RECURSIVE TransformCdrChunks(_, _)
TransformCdrChunks(files, paths) ==
    IF paths = {} THEN files
    ELSE LET p == CHOOSE x \in paths : TRUE
         IN  TransformCdrChunks(TransformCdrChunk(files, p), paths \ {p})

\* lines 37-38
RECURSIVE TransformGpsChunks(_, _)
TransformGpsChunks(files, paths) ==
    IF paths = {} THEN files
    ELSE LET p == CHOOSE x \in paths : TRUE
         IN  TransformGpsChunks(TransformGpsChunk(files, p), paths \ {p})

\* the first chunk only
MergedFirstChunk(folder) == fs[SortedPaths(Glob(folder))[1]]

(***************************************************************************)
(* join_data.py                                                            *)
(***************************************************************************)
\* sorted(folder.glob("*.parquet")) read in order and concatenated
MergedRows(folder) ==
    LET files == SortedPaths(Glob(folder))
    IN  ConcatAll([i \in DOMAIN files |-> fs[files[i]]])

\* lines 7-30
MergeCdrChunks ==
    /\ IF ~DirExists("cdr_cleaned")
       THEN /\ ret' = Returned("merge_cdr_chunks", "Directory not found", {})
            /\ UNCHANGED fs
       ELSE IF Glob("cdr_cleaned") = {}
       THEN /\ ret' = Returned("merge_cdr_chunks", "No CDR chunks found", {})
            /\ UNCHANGED fs
       ELSE /\ fs' = WriteFile(fs, CdrMergedPath, MergedRows("cdr_cleaned"))
            /\ ret' = Returned("merge_cdr_chunks", "Written merged CDR",
                               {CdrMergedPath})
    /\ UNCHANGED <<df_raw, df_ret>>

\* lines 33-56
MergeGpsChunks ==
    /\ IF ~DirExists("gps_cleaned")
       THEN /\ ret' = Returned("merge_gps_chunks", "Directory not found", {})
            /\ UNCHANGED fs
       ELSE IF Glob("gps_cleaned") = {}
       THEN /\ ret' = Returned("merge_gps_chunks", "No GPS chunks found", {})
            /\ UNCHANGED fs
       ELSE /\ fs' = WriteFile(fs, GpsMergedPath, MergedRows("gps_cleaned"))
            /\ ret' = Returned("merge_gps_chunks", "Written merged GPS",
                               {GpsMergedPath})
    /\ UNCHANGED <<df_raw, df_ret>>

(***************************************************************************)
(* feature_engineering.py: build_od_flows                                  *)
(***************************************************************************)
UserTimeKey(r) == <<StrKey(r.user_id), <<r.timestamp.utc>>>>

\* mutant: shift() without the groupby, the previous row whoever it belongs to
ShiftTowerAnyUser(rows, i) == IF i = 1 THEN Null ELSE rows[i - 1].tower_id

\* df.groupby("user_id")["tower_id"].shift(): the tower of the previous row
\* of the same user, NaN on the user's first row
ShiftTowerByUser(rows, i) ==
    LET prev == {j \in 1..(i - 1) : rows[j].user_id = rows[i].user_id}
    IN  IF prev = {} THEN Null
        ELSE rows[CHOOSE j \in prev : \A k \in prev : k <= j].tower_id

\* lines 24-42: the per-event frame with origin, destination and hour
OdEventRows(merged) ==
    LET conv == Series([i \in DOMAIN merged |->
                    [merged[i] EXCEPT !.timestamp = ToKolkata(@)]])
        sorted == SortValues(conv, Series([i \in DOMAIN conv |-> UserTimeKey(conv[i])]))
        hops == Series([i \in DOMAIN sorted |->
                    [user_id |-> sorted[i].user_id,
                     tower_id |-> sorted[i].tower_id,
                     timestamp |-> sorted[i].timestamp,
                     origin_tower |-> ShiftTowerByUser(sorted, i),
                     dest_tower |-> sorted[i].tower_id]])
        kept == SelectRows(hops, {i \in DOMAIN hops : hops[i].origin_tower # Null})
    IN  [i \in DOMAIN kept |->
            [user_id |-> kept[i].user_id,
             tower_id |-> kept[i].tower_id,
             timestamp |-> kept[i].timestamp,
             origin_tower |-> kept[i].origin_tower,
             dest_tower |-> kept[i].dest_tower,
             hour |-> FloorHour(kept[i].timestamp)]]

\* the tower pair ahead of the hour
OdKeyPairFirst(r) == <<StrKey(r.origin_tower), StrKey(r.dest_tower), <<r.hour.utc>>>>

\* line 46: groupby(["hour", "origin_tower", "dest_tower"]) sorts by its keys
\* in this order
OdKey(r) == <<<<r.hour.utc>>, StrKey(r.origin_tower), StrKey(r.dest_tower)>>

\* mutant: one output row per event, nothing summed
OdRowPerEvent(events) ==
    [i \in DOMAIN events |->
        [hour |-> events[i].hour,
         origin_tower |-> events[i].origin_tower,
         dest_tower |-> events[i].dest_tower,
         count |-> 1]]

\* lines 45-49: groupby(["hour","origin_tower","dest_tower"]).size()
\* .reset_index(name="count"); groupby leaves out rows with a missing key
OdGroupSize(events) ==
    LET keyed == SelectRows(events, {i \in DOMAIN events : events[i].dest_tower # Null})
        keys == Series([i \in DOMAIN keyed |-> OdKey(keyed[i])])
        firsts == GroupFirsts(keys)
    IN  [g \in DOMAIN firsts |->
            [hour |-> keyed[firsts[g]].hour,
             origin_tower |-> keyed[firsts[g]].origin_tower,
             dest_tower |-> keyed[firsts[g]].dest_tower,
             count |-> Cardinality({i \in DOMAIN keyed : keys[i] = keys[firsts[g]]})]]

BuildOdFlows ==
    /\ IF ~Exists(CdrMergedPath)
       THEN /\ ret' = Returned("build_od_flows", "File not found", {})
            /\ UNCHANGED fs
       ELSE /\ fs' = WriteFile(fs, OdFlowsPath, OdGroupSize(OdEventRows(fs[CdrMergedPath])))
            /\ ret' = Returned("build_od_flows", "OD flows saved", {OdFlowsPath})
    /\ UNCHANGED <<df_raw, df_ret>>

(***************************************************************************)
(* feature_engineering.py: build_gps_speed_features                        *)
(***************************************************************************)
\* mutant: the cell named by the latitude alone
GridIdLatOnly(lat, lon) == FloatStr(Round2(lat))

\* lines 78-80: grid_lat.astype(str) + "_" + grid_lon.astype(str)
GridId(lat, lon) == FloatStr(Round2(lat)) \o <<"_">> \o FloatStr(Round2(lon))

\* lines 71-80: the per-point frame with hour and grid cell
GpsPointRows(merged) ==
    Series([i \in DOMAIN merged |->
        [device_id |-> merged[i].device_id,
         latitude |-> merged[i].latitude,
         longitude |-> merged[i].longitude,
         timestamp |-> ToKolkata(merged[i].timestamp),
         speed_kmph |-> merged[i].speed_kmph,
         hour |-> FloorHour(ToKolkata(merged[i].timestamp)),
         grid_lat |-> Round2(merged[i].latitude),
         grid_lon |-> Round2(merged[i].longitude),
         grid_id |-> GridId(merged[i].latitude, merged[i].longitude)]])

GpsKey(r) == <<<<r.hour.utc>>, StrKey(r.grid_id)>>

RECURSIVE SumSpeed(_, _)
SumSpeed(rows, idx) ==
    IF idx = {} THEN 0
    ELSE LET i == CHOOSE x \in idx : TRUE
         IN  rows[i].speed_kmph + SumSpeed(rows, idx \ {i})

\* lines 83-88: groupby(["hour","grid_id"])["speed_kmph"].mean()
\* .reset_index().rename(...)
GpsGroupMean(points) ==
    LET keys == Series([i \in DOMAIN points |-> GpsKey(points[i])])
        firsts == GroupFirsts(keys)
    IN  [g \in DOMAIN firsts |->
            LET members == {i \in DOMAIN points : keys[i] = keys[firsts[g]]}
            IN  [hour |-> points[firsts[g]].hour,
                 grid_id |-> points[firsts[g]].grid_id,
                 avg_speed_kmph |->
                     Frac(SumSpeed(points, members), Cardinality(members))]]

BuildGpsSpeedFeatures ==
    /\ IF ~Exists(GpsMergedPath)
       THEN /\ ret' = Returned("build_gps_speed_features", "File not found", {})
            /\ UNCHANGED fs
       ELSE /\ fs' = WriteFile(fs, GpsSpeedPath,
                               GpsGroupMean(GpsPointRows(fs[GpsMergedPath])))
            /\ ret' = Returned("build_gps_speed_features",
                               "GPS speed features saved", {GpsSpeedPath})
    /\ UNCHANGED <<df_raw, df_ret>>

(***************************************************************************)
(* data_preprocessor.py                                                    *)
(*                                                                         *)
(* A frame row carries its lag / rolling columns as three functions: lag   *)
(* from the lag L, rolling_mean and rolling_std from the window W.  A      *)
(* standard deviation is held as its square, the sample variance (ddof=1), *)
(* which is defined and equal exactly when the deviation is.               *)
(***************************************************************************)
\* lines 13-27: of the calendar columns only hour_of_day is kept; the others
\* are further per-row functions of the same timestamp
CreateTimeFeatures(df) ==
    [i \in DOMAIN df |->
        df[i] @@ [hour_of_day |->
                     ((df[i].hour.utc + UtcOffset(df[i].hour.tz)) \div TicksPerHour) % 24]]

\* the rows of i's group from the first row to row i, in order
GroupUpTo(g, i) == {j \in 1..i : g[j] = g[i]}

\* mutant: shift(lag) on the whole column, across group borders
ShiftAcrossGroups(g, y, i, lag) == IF i - lag >= 1 THEN y[i - lag] ELSE NaN

\* line 52: df.groupby(group_cols)[target_col].shift(lag), at row i
GroupShift(g, y, i, lag) ==
    LET prior == GroupUpTo(g, i) \ {i}
    IN  IF Cardinality(prior) < lag THEN NaN
        ELSE y[CHOOSE j \in prior : Cardinality({k \in prior : k >= j}) = lag]

\* mutant: a window that needs all its observations (min_periods=window)
FullWindowOnly(g, i, window) ==
    LET upto == GroupUpTo(g, i)
    IN  IF Cardinality(upto) < window THEN {}
        ELSE {j \in upto : Cardinality({k \in upto : k >= j}) <= window}

\* x.rolling(window=window, min_periods=1) inside one group: the rows of the
\* trailing window that ends at row i
RollingWindow(g, i, window) ==
    LET upto == GroupUpTo(g, i)
    IN  {j \in upto : Cardinality({k \in upto : k >= j}) <= window}

\* line 58: .mean() of the window
RollingMean(g, y, i, window) ==
    LET w == RollingWindow(g, i, window)
    IN  IF w = {} THEN NaN ELSE FracDivInt(FracSum(y, w), Cardinality(w))

\* line 59: .std() of the window, NaN below two observations
RollingStd(g, y, i, window) ==
    LET w == RollingWindow(g, i, window)
        n == Cardinality(w)
        mean == FracDivInt(FracSum(y, w), n)
        sq == [j \in DOMAIN y |->
                  FracMul(FracSub(y[j], mean), FracSub(y[j], mean))]
    IN  IF n < 2 THEN NaN ELSE FracDivInt(FracSum(sq, w), n - 1)

\* groupby(group_cols)[col].ffill(), at row i
GroupFfill(g, col, i) ==
    LET known == {j \in GroupUpTo(g, i) : col[j] # NaN}
    IN  IF known = {} THEN NaN
        ELSE col[CHOOSE j \in known : \A k \in known : k <= j]

\* Series.bfill() on the column as a whole, at row i
Bfill(col, i) ==
    LET known == {j \in i..Len(col) : col[j] # NaN}
    IN  IF known = {} THEN NaN
        ELSE col[CHOOSE j \in known : \A k \in known : j <= k]

\* mutant: the fill without the final fillna(0)
FillWithoutDefault(g, col) ==
    LET ff == Series([i \in DOMAIN col |-> GroupFfill(g, col, i)])
    IN  Series([i \in DOMAIN col |-> Bfill(ff, i)])

\* lines 69-72: groupby(group_cols)[col].ffill().bfill(), then fillna(0)
FillColumn(g, col) ==
    LET ff == Series([i \in DOMAIN col |-> GroupFfill(g, col, i)])
        bf == Series([i \in DOMAIN col |-> Bfill(ff, i)])
    IN  Series([i \in DOMAIN col |-> IF bf[i] = NaN THEN Num(0) ELSE bf[i]])

SeqToSet(s) == {s[i] : i \in DOMAIN s}

\* lines 47-59: the frame sorted by group and time with its lag and rolling
\* columns, before the fill.  gkey, tkey and target give, per row of df, the
\* sort key of the group columns, the sort key of the time column and the
\* target cell.
LagRollingRaw(df, gkey, tkey, target, lags, windows) ==
    LET perm == ArgSort(Series([i \in DOMAIN df |-> gkey[i] \o tkey[i]]))
        g == Series([i \in DOMAIN perm |-> gkey[perm[i]]])
        y == Series([i \in DOMAIN perm |-> target[perm[i]]])
        lag == Columns([l \in SeqToSet(lags) |->
                   Series([i \in DOMAIN perm |-> GroupShift(g, y, i, l)])])
        mean == Columns([w \in SeqToSet(windows) |->
                   Series([i \in DOMAIN perm |-> RollingMean(g, y, i, w)])])
        std == Columns([w \in SeqToSet(windows) |->
                   Series([i \in DOMAIN perm |-> RollingStd(g, y, i, w)])])
    IN  Series([i \in DOMAIN perm |->
            df[perm[i]] @@
            [lag |-> [l \in SeqToSet(lags) |-> lag[l][i]],
             rolling_mean |-> [w \in SeqToSet(windows) |-> mean[w][i]],
             rolling_std |-> [w \in SeqToSet(windows) |-> std[w][i]]]])

\* lines 67-74: every lag / rolling column of the frame filled; g gives the
\* group of each row
LagRollingFilled(raw, g, lags, windows) ==
    LET lag == Columns([l \in SeqToSet(lags) |->
                   FillColumn(g, Series([j \in DOMAIN raw |-> raw[j].lag[l]]))])
        mean == Columns([w \in SeqToSet(windows) |->
                   FillColumn(g, Series([j \in DOMAIN raw |-> raw[j].rolling_mean[w]]))])
        std == Columns([w \in SeqToSet(windows) |->
                   FillColumn(g, Series([j \in DOMAIN raw |-> raw[j].rolling_std[w]]))])
    IN  Series([i \in DOMAIN raw |->
            [raw[i] EXCEPT
                !.lag = [l \in SeqToSet(lags) |-> lag[l][i]],
                !.rolling_mean = [w \in SeqToSet(windows) |-> mean[w][i]],
                !.rolling_std = [w \in SeqToSet(windows) |-> std[w][i]]]])

\* the default arguments of create_lag_and_rolling_features
DefaultLags == <<1, 24, 48, 168>>

DefaultWindows == <<3, 6, 24>>

OdGroupKey(r) == <<StrKey(r.origin_tower), StrKey(r.dest_tower)>>

GridGroupKey(r) == <<StrKey(r.grid_id)>>

HourKey(r) == <<<<r.hour.utc>>>>

\* create_lag_and_rolling_features(df, ['origin_tower', 'dest_tower'], 'hour',
\* 'count', lags, windows)
OdLagRollingRaw(df, lags, windows) ==
    LagRollingRaw(df, [i \in DOMAIN df |-> OdGroupKey(df[i])],
                  [i \in DOMAIN df |-> HourKey(df[i])],
                  [i \in DOMAIN df |-> Num(df[i].count)], lags, windows)

\* create_lag_and_rolling_features(df, ['grid_id'], 'hour', 'avg_speed_kmph',
\* lags, windows)
GpsLagRollingRaw(df, lags, windows) ==
    LagRollingRaw(df, [i \in DOMAIN df |-> GridGroupKey(df[i])],
                  [i \in DOMAIN df |-> HourKey(df[i])],
                  [i \in DOMAIN df |-> df[i].avg_speed_kmph], lags, windows)

OdFilled(raw, lags, windows) ==
    LagRollingFilled(raw, Series([i \in DOMAIN raw |-> OdGroupKey(raw[i])]),
                     lags, windows)

GpsFilled(raw, lags, windows) ==
    LagRollingFilled(raw, Series([i \in DOMAIN raw |-> GridGroupKey(raw[i])]),
                     lags, windows)

CreateOdPredictionFeatures ==
    IF ~Exists(OdFlowsPath)
    THEN /\ ret' = Returned("create_od_prediction_features", "File not found", {})
         /\ UNCHANGED <<fs, df_raw, df_ret>>
    ELSE LET raw == OdLagRollingRaw(CreateTimeFeatures(fs[OdFlowsPath]),
                                    DefaultLags, DefaultWindows)
             ret_df == OdFilled(raw, DefaultLags, DefaultWindows)
         IN  /\ df_raw' = raw
             /\ df_ret' = ret_df
             /\ fs' = WriteFile(fs, OdEngineeredPath, ret_df)
             /\ ret' = Returned("create_od_prediction_features",
                                "Engineered OD flow features saved",
                                {OdEngineeredPath})

CreateGpsSpeedPredictionFeatures ==
    IF ~Exists(GpsSpeedPath)
    THEN /\ ret' = Returned("create_gps_speed_prediction_features",
                            "File not found", {})
         /\ UNCHANGED <<fs, df_raw, df_ret>>
    ELSE LET raw == GpsLagRollingRaw(CreateTimeFeatures(fs[GpsSpeedPath]),
                                     DefaultLags, DefaultWindows)
             ret_df == GpsFilled(raw, DefaultLags, DefaultWindows)
         IN  /\ df_raw' = raw
             /\ df_ret' = ret_df
             /\ fs' = WriteFile(fs, GpsEngineeredPath, ret_df)
             /\ ret' = Returned("create_gps_speed_prediction_features",
                                "Engineered GPS speed features saved",
                                {GpsEngineeredPath})

\* a direct call of create_lag_and_rolling_features on the OD flows frame with
\* the given lags and windows; the result is returned, nothing is written
CallCreateLagAndRollingFeatures(lags, windows) ==
    /\ Exists(OdFlowsPath)
    /\ LET raw == OdLagRollingRaw(fs[OdFlowsPath], lags, windows)
       IN  /\ df_raw' = raw
           /\ df_ret' = OdFilled(raw, lags, windows)
    /\ ret' = Returned("create_lag_and_rolling_features", "Filling NaNs", {})
    /\ UNCHANGED fs

(***************************************************************************)
(* anomaly_detector.py                                                     *)
(*                                                                         *)
(* IsolationForest.fit_predict labels each row +1 or -1; which rows get    *)
(* which label is left open.  Fitting a frame of no rows raises            *)
(* ValueError.  The model and plot files are held as an opaque content.    *)
(***************************************************************************)
Opaque == <<"binary">>

RECURSIVE SumCount(_, _)
SumCount(rows, idx) ==
    IF idx = {} THEN 0
    ELSE LET i == CHOOSE x \in idx : TRUE
         IN  rows[i].count + SumCount(rows, idx \ {i})

\* a row per row of od_flows, with no sum over the flows of an hour
TotalsPerFlow(od) ==
    Series([i \in DOMAIN od |-> [hour |-> od[i].hour, total_count |-> od[i].count]])

\* lines 29-31: groupby("hour")["count"].sum().reset_index(name="total_count"),
\* sorted by hour
HourlyTotals(od) ==
    LET keys == Series([i \in DOMAIN od |-> <<<<od[i].hour.utc>>>>])
        firsts == GroupFirsts(keys)
    IN  Series([g \in DOMAIN firsts |->
            [hour |-> od[firsts[g]].hour,
             total_count |->
                 SumCount(od, {i \in DOMAIN od : keys[i] = keys[firsts[g]]})]])

\* lines 37-38 and 101-102: anomaly_score and is_anomaly
WithLabels(rows, score) ==
    [i \in DOMAIN rows |->
        rows[i] @@ [anomaly_score |-> score[i], is_anomaly |-> score[i] = -1]]

\* what can become of the writes that follow the CSV: joblib.dump raises
\* (the except of line 50 takes ImportError only, lines 110-111 are outside
\* any try), the plot fails and the except of lines 68 and 136 swallows it,
\* or all is saved
SaveOutcomes == {"saved", "plot_failed", "dump_failed"}

\* lines 40-69 and 104-137: the CSV, then the model, then the plot
SaveArtifacts(stage, msg, csvPath, modelPath, plotPath, rows, outcome) ==
    LET csv == WriteFile(fs, csvPath, rows)
        pkl == WriteFile(csv, modelPath, Opaque)
    IN  IF outcome = "dump_failed"
        THEN /\ fs' = csv
             /\ ret' = Failed(stage, "OSError", {csvPath})
        ELSE IF outcome = "plot_failed"
        THEN /\ fs' = pkl
             /\ ret' = Returned(stage, msg, {csvPath, modelPath})
        ELSE /\ fs' = WriteFile(pkl, plotPath, Opaque)
             /\ ret' = Returned(stage, msg, {csvPath, modelPath, plotPath})

\* lines 10-69
DetectHourlyDemandAnomalies ==
    /\ IF ~Exists(OdFlowsPath)
       THEN /\ ret' = Returned("detect_hourly_demand_anomalies", "File not found", {})
            /\ UNCHANGED fs
       ELSE IF fs[OdFlowsPath] = <<>>
       THEN /\ ret' = Raised("detect_hourly_demand_anomalies", "ValueError")
            /\ UNCHANGED fs
       ELSE LET hourly == HourlyTotals(fs[OdFlowsPath])
            IN  \E score \in [DOMAIN hourly -> {1, -1}], outcome \in SaveOutcomes :
                   SaveArtifacts("detect_hourly_demand_anomalies",
                                 "Hourly anomalies saved",
                                 HourlyCsvPath, HourlyModelPath, HourlyPlotPath,
                                 WithLabels(hourly, score), outcome)
    /\ UNCHANGED <<df_raw, df_ret>>

\* lines 71-137; of the calendar columns of lines 89-91 only hour_of_day is
\* kept
DetectGpsSpeedAnomalies ==
    /\ IF ~Exists(GpsSpeedPath)
       THEN /\ ret' = Returned("detect_gps_speed_anomalies", "File not found", {})
            /\ UNCHANGED fs
       ELSE IF fs[GpsSpeedPath] = <<>>
       THEN /\ ret' = Raised("detect_gps_speed_anomalies", "ValueError")
            /\ UNCHANGED fs
       ELSE LET gps_speeds == CreateTimeFeatures(fs[GpsSpeedPath])
            IN  \E score \in [DOMAIN gps_speeds -> {1, -1}], outcome \in SaveOutcomes :
                   SaveArtifacts("detect_gps_speed_anomalies",
                                 "GPS speed anomalies saved",
                                 GpsCsvPath, GpsModelPath, GpsPlotPath,
                                 WithLabels(gps_speeds, score), outcome)
    /\ UNCHANGED <<df_raw, df_ret>>

(***************************************************************************)
(* Inputs.                                                                 *)
(***************************************************************************)
Towers == {<<"A">>, <<"B">>, <<"C">>}

\* instants (ticks, UTC) the events are drawn from; in Asia/Kolkata they read
\* 06:00, 06:30, 07:00 and 09:00
EventTicks == {1, 2, 3, 7}

Kolkata(t) == [utc |-> t, tz |-> "Asia/Kolkata"]

\* a row of cdr_merged, as transform_cdr_chunk leaves it: the tower present,
\* the timestamp in Asia/Kolkata.  The first user is seen at every tower and
\* instant, the second at two towers on two whole hours.
CleanCdrEvents ==
    [user_id : {<<"U", "1">>}, tower_id : Towers,
     timestamp : {Kolkata(t) : t \in EventTicks}]
    \cup [user_id : {<<"U", "2">>}, tower_id : {<<"A">>, <<"B">>},
          timestamp : {Kolkata(t) : t \in {1, 3}}]

\* a row of gps_merged, as transform_gps_chunk leaves it: inside the
\* bounding box, the timestamp in Asia/Kolkata.  26.801 and 26.804 round to
\* the same hundredth, 26.806 to the next one.
CleanGpsPoints ==
    [device_id : {<<"D", "1">>},
     latitude : {26801, 26804, 26806},
     longitude : {80904, 80906},
     timestamp : {Kolkata(t) : t \in {1, 2, 3}},
     speed_kmph : {10, 25}]

\* no script has run yet
Idle == [script |-> "none", pc |-> 0, exit |-> "none", returns |-> <<>>]

InitCdrMerged ==
    /\ \E n \in 0..MaxEvents : \E rows \in [1..n -> CleanCdrEvents] :
          fs = (CdrMergedPath :> rows)
    /\ ret = NoCall
    /\ caller = Idle
    /\ df_raw = <<>>
    /\ df_ret = <<>>

InitGpsMerged ==
    /\ \E n \in 0..MaxPoints : \E rows \in [1..n -> CleanGpsPoints] :
          fs = (GpsMergedPath :> rows)
    /\ ret = NoCall
    /\ caller = Idle
    /\ df_raw = <<>>
    /\ df_ret = <<>>

(***************************************************************************)
(* The aggregation stages applied to a merged file.                        *)
(***************************************************************************)
AggBuildOdFlows ==
    /\ Exists(CdrMergedPath)
    /\ BuildOdFlows
    /\ UNCHANGED caller

AggBuildGpsSpeedFeatures ==
    /\ Exists(GpsMergedPath)
    /\ BuildGpsSpeedFeatures
    /\ UNCHANGED caller

InitAgg == InitCdrMerged \/ InitGpsMerged

NextAgg == AggBuildOdFlows \/ AggBuildGpsSpeedFeatures

SpecAgg == InitAgg /\ [][NextAgg]_vars

(***************************************************************************)
(* The feature builder applied to an aggregated file.                      *)
(***************************************************************************)
RECURSIVE SetToSeq(_)
SetToSeq(S) ==
    IF S = {} THEN <<>>
    ELSE LET x == CHOOSE y \in S : TRUE IN <<x>> \o SetToSeq(S \ {x})

\* the flows the feature tables are drawn over
FeatFlows == {<<"A", "B">>, <<"B", "A">>, <<"B", "C">>}

\* whole hours of Asia/Kolkata (06:00, 07:00, 08:00), as ticks
FeatHours == {1, 3, 5}

\* an od_flows file as build_od_flows writes it: one row per (hour, origin,
\* destination) with a count of at least 1, in the order of the groupby.
\* cnt gives each cell its count, 0 for no row.
OdTable(cnt) ==
    LET rows == SetToSeq({[hour |-> Kolkata(c[2]),
                           origin_tower |-> <<c[1][1]>>,
                           dest_tower |-> <<c[1][2]>>,
                           count |-> cnt[c]] :
                          c \in {d \in DOMAIN cnt : cnt[d] > 0}})
    IN  SortValues(rows, [i \in DOMAIN rows |-> OdKey(rows[i])])

FeatGrids == {GridId(26801, 80904), GridId(26806, 80904)}

\* a gps_speed_features file as build_gps_speed_features writes it; avg gives
\* each cell its mean speed, NaN for no row
GpsTable(avg) ==
    LET rows == SetToSeq({[hour |-> Kolkata(c[2]),
                           grid_id |-> c[1],
                           avg_speed_kmph |-> avg[c]] :
                          c \in {d \in DOMAIN avg : avg[d] # NaN}})
    IN  SortValues(rows, [i \in DOMAIN rows |-> GpsKey(rows[i])])

InitOdFlows ==
    /\ \E cnt \in [FeatFlows \X FeatHours -> 0..2] :
          /\ Cardinality({c \in DOMAIN cnt : cnt[c] > 0}) <= MaxRows
          /\ fs = (OdFlowsPath :> OdTable(cnt))
    /\ ret = NoCall
    /\ caller = Idle
    /\ df_raw = <<>>
    /\ df_ret = <<>>

InitGpsSpeed ==
    /\ \E avg \in [FeatGrids \X {1, 3} -> {NaN, Num(10), Frac(35, 2)}] :
          fs = (GpsSpeedPath :> GpsTable(avg))
    /\ ret = NoCall
    /\ caller = Idle
    /\ df_raw = <<>>
    /\ df_ret = <<>>

\* the lags and windows a direct call is made with
FeatArgs ==
    {[lags |-> <<1, 2>>, windows |-> <<2, 3>>],
     [lags |-> <<3>>, windows |-> <<1>>]}

FeatCall ==
    /\ \E a \in FeatArgs : CallCreateLagAndRollingFeatures(a.lags, a.windows)
    /\ UNCHANGED caller

FeatCreateOd ==
    /\ Exists(OdFlowsPath)
    /\ CreateOdPredictionFeatures
    /\ UNCHANGED caller

FeatCreateGps ==
    /\ Exists(GpsSpeedPath)
    /\ CreateGpsSpeedPredictionFeatures
    /\ UNCHANGED caller

InitFeat == InitOdFlows \/ InitGpsSpeed

NextFeat == FeatCall \/ FeatCreateOd \/ FeatCreateGps

SpecFeat == InitFeat /\ [][NextFeat]_vars

(***************************************************************************)
(* The scripts.  Each script's __main__ block makes its calls in order; a  *)
(* call that raises ends the script.  A script is started when no other    *)
(* is running, in any order and any number of times.                       *)
(***************************************************************************)
NotRunning == caller.exit # "running"

Running(script, pc) ==
    caller.script = script /\ caller.pc = pc /\ caller.exit = "running"

\* the __main__ block of script at its first statement
Entered(script) ==
    [script |-> script, pc |-> 1, exit |-> "running", returns |-> <<>>]

\* the __main__ block c once its call at c.pc has ended as r; last: no
\* statement follows the call
AfterCall(c, r, last) ==
    [script |-> c.script, pc |-> c.pc + 1,
     exit |-> IF r.how = "raise" THEN "died"
              ELSE IF last THEN "done" ELSE "running",
     returns |-> Append(c.returns, r)]

\* transform.py lines 29, 35-36; last: the chunk the glob lists last
TransformMainCdr ==
    /\ NotRunning
    /\ IF Glob("cdr") = {}
       THEN /\ UNCHANGED <<fs, ret, df_raw, df_ret>>
            /\ caller' = [Entered("transform") EXCEPT !.pc = 2]
       ELSE /\ fs' = TransformCdrChunks(fs, Glob("cdr"))
            /\ \E last \in Glob("cdr") :
                  ret' = Returned("transform_cdr_chunk", "CDR chunk cleaned",
                                  {Path("cdr_cleaned", CleanedName(last[2]))})
            /\ UNCHANGED <<df_raw, df_ret>>
            /\ caller' = AfterCall(Entered("transform"), ret', FALSE)

\* transform.py lines 30, 37-38
TransformMainGps ==
    /\ Running("transform", 2)
    /\ IF Glob("gps") = {}
       THEN /\ UNCHANGED <<fs, ret, df_raw, df_ret>>
            /\ caller' = [caller EXCEPT !.pc = 3, !.exit = "done"]
       ELSE /\ fs' = TransformGpsChunks(fs, Glob("gps"))
            /\ \E last \in Glob("gps") :
                  ret' = Returned("transform_gps_chunk", "GPS chunk cleaned",
                                  {Path("gps_cleaned", CleanedName(last[2]))})
            /\ UNCHANGED <<df_raw, df_ret>>
            /\ caller' = AfterCall(caller, ret', TRUE)

\* join_data.py line 60
JoinDataMainCdr ==
    /\ NotRunning
    /\ MergeCdrChunks
    /\ caller' = AfterCall(Entered("join_data"), ret', FALSE)

\* join_data.py line 61
JoinDataMainGps ==
    /\ Running("join_data", 2)
    /\ MergeGpsChunks
    /\ caller' = AfterCall(caller, ret', TRUE)

\* feature_engineering.py line 96
FeatureEngineeringMainOd ==
    /\ NotRunning
    /\ BuildOdFlows
    /\ caller' = AfterCall(Entered("feature_engineering"), ret', FALSE)

\* feature_engineering.py line 97
FeatureEngineeringMainGps ==
    /\ Running("feature_engineering", 2)
    /\ BuildGpsSpeedFeatures
    /\ caller' = AfterCall(caller, ret', TRUE)

\* data_preprocessor.py lines 137-139
DataPreprocessorMainOd ==
    /\ NotRunning
    /\ CreateOdPredictionFeatures
    /\ caller' = AfterCall(Entered("data_preprocessor"), ret', FALSE)

\* data_preprocessor.py line 141
DataPreprocessorMainGps ==
    /\ Running("data_preprocessor", 2)
    /\ CreateGpsSpeedPredictionFeatures
    /\ caller' = AfterCall(caller, ret', TRUE)

\* anomaly_detector.py lines 140-142
AnomalyDetectorMainOd ==
    /\ NotRunning
    /\ DetectHourlyDemandAnomalies
    /\ caller' = AfterCall(Entered("anomaly_detector"), ret', FALSE)

\* anomaly_detector.py line 144
AnomalyDetectorMainGps ==
    /\ Running("anomaly_detector", 2)
    /\ DetectGpsSpeedAnomalies
    /\ caller' = AfterCall(caller, ret', TRUE)

CdrChunkPath == Path("cdr", <<"chunk_000">>)

GpsChunkPath == Path("gps", <<"chunk_000">>)

Utc(t) == [utc |-> t, tz |-> "UTC"]

\* rows of a CDR chunk as streamed: 05:30 and 07:00 in Asia/Kolkata, a row
\* without a tower
RawCdrEvents ==
    {[user_id |-> <<"U", "1">>, tower_id |-> <<"A">>, timestamp |-> Utc(0)],
     [user_id |-> <<"U", "1">>, tower_id |-> <<"B">>, timestamp |-> Utc(3)],
     [user_id |-> <<"U", "1">>, tower_id |-> Null, timestamp |-> Utc(3)]}

\* rows of a GPS chunk as streamed: points of two grid cells, inside the
\* bounding box the streamer has already cut to
RawGpsPoints ==
    {[device_id |-> <<"D", "1">>, latitude |-> lat, longitude |-> 80904,
      timestamp |-> Utc(1), speed_kmph |-> 25] : lat \in {26801, 26806}}

\* the processed folder as the streamer leaves it: a chunk of each kind, or
\* none, of MaxChunkRows rows in all
Init ==
    /\ \E hasCdr, hasGps \in BOOLEAN :
       \E n \in 0..MaxChunkRows : \E m \in 0..(MaxChunkRows - n) :
       \E c \in [1..n -> RawCdrEvents], g \in [1..m -> RawGpsPoints] :
          /\ ~hasCdr => n = 0
          /\ ~hasGps => m = 0
          /\ fs = [p \in (IF hasCdr THEN {CdrChunkPath} ELSE {}) \cup
                        (IF hasGps THEN {GpsChunkPath} ELSE {}) |->
                     IF p = CdrChunkPath THEN c ELSE g]
    /\ ret = NoCall
    /\ caller = Idle
    /\ df_raw = <<>>
    /\ df_ret = <<>>

Next ==
    \/ TransformMainCdr
    \/ TransformMainGps
    \/ JoinDataMainCdr
    \/ JoinDataMainGps
    \/ FeatureEngineeringMainOd
    \/ FeatureEngineeringMainGps
    \/ DataPreprocessorMainOd
    \/ DataPreprocessorMainGps
    \/ AnomalyDetectorMainOd
    \/ AnomalyDetectorMainGps

Spec == Init /\ [][Next]_vars

(***************************************************************************)
(* The pipeline from the raw CSV files on.                                 *)
(***************************************************************************)
\* streamer.py lines 68-81: exit(0) when data/raw holds no CSV of either kind
StreamerMainCdr ==
    /\ NotRunning
    /\ LET made == EnsureProcessedFoldersExist(fs)
       IN  IF ~Exists(RawCdrPath) /\ ~Exists(RawGpsPath)
           THEN /\ fs' = made
                /\ UNCHANGED <<ret, df_raw, df_ret>>
                /\ caller' = [Entered("streamer") EXCEPT !.pc = 3, !.exit = "done"]
           ELSE IF ~Exists(RawCdrPath)
           THEN /\ fs' = made
                /\ UNCHANGED <<ret, df_raw, df_ret>>
                /\ caller' = [Entered("streamer") EXCEPT !.pc = 2]
           ELSE /\ StreamCsvToParquet(made, RawCdrPath, "cdr")
                /\ caller' = AfterCall(Entered("streamer"), ret', FALSE)

\* streamer.py lines 84-85
StreamerMainGps ==
    /\ Running("streamer", 2)
    /\ IF ~Exists(RawGpsPath)
       THEN /\ UNCHANGED <<fs, ret, df_raw, df_ret>>
            /\ caller' = [caller EXCEPT !.pc = 3, !.exit = "done"]
       ELSE /\ StreamCsvToParquet(fs, RawGpsPath, "gps")
            /\ caller' = AfterCall(caller, ret', TRUE)

\* rows of a raw CDR file: the events of RawCdrEvents that name a tower, and
\* a row whose timestamp is not in the format
RawCsvCdrRows ==
    {[e EXCEPT !.timestamp = Naive(@.utc)] :
        e \in {x \in RawCdrEvents : x.tower_id # Null}} \cup
    {[user_id |-> <<"U", "1">>, tower_id |-> <<"A">>, timestamp |-> Malformed]}

\* rows of a raw GPS file: a point inside the bounding box and one south of it
RawCsvGpsRows ==
    {[device_id |-> <<"D", "1">>, latitude |-> lat, longitude |-> 80904,
      timestamp |-> Naive(1), speed_kmph |-> 25] : lat \in {26700, 26801}}

\* data/raw as ingest leaves it: a CSV file of either kind or of both, of
\* MaxRawRows rows in all
InitStream ==
    /\ \E n \in 0..MaxRawRows : \E m \in 0..(MaxRawRows - n) :
       \E c \in [1..n -> RawCsvCdrRows], g \in [1..m -> RawCsvGpsRows] :
          /\ n + m > 0
          /\ fs = [p \in (IF n > 0 THEN {RawCdrPath} ELSE {}) \cup
                        (IF m > 0 THEN {RawGpsPath} ELSE {}) |->
                     IF p = RawCdrPath THEN c ELSE g]
    /\ ret = NoCall
    /\ caller = Idle
    /\ df_raw = <<>>
    /\ df_ret = <<>>

NextStream ==
    \/ StreamerMainCdr
    \/ StreamerMainGps
    \/ TransformMainCdr
    \/ TransformMainGps
    \/ JoinDataMainCdr
    \/ JoinDataMainGps
    \/ FeatureEngineeringMainOd
    \/ FeatureEngineeringMainGps
    \/ DataPreprocessorMainOd
    \/ DataPreprocessorMainGps
    \/ AnomalyDetectorMainOd
    \/ AnomalyDetectorMainGps

SpecStream == InitStream /\ [][NextStream]_vars

(***************************************************************************)
(* Flow aggregation: what od_flows must hold for a given cdr_merged.       *)
(***************************************************************************)
OdBuilt ==
    /\ ret.stage = "build_od_flows"
    /\ ret.wrote = {OdFlowsPath}

Merged == fs[CdrMergedPath]

Od == fs[OdFlowsPath]

\* event a comes before event b in their user's chronological sequence
\* (equal instants keep the order of the file)
Before(ev, a, b) ==
    /\ ev[a].user_id = ev[b].user_id
    /\ \/ ev[a].timestamp.utc < ev[b].timestamp.utc
       \/ ev[a].timestamp.utc = ev[b].timestamp.utc /\ a < b

\* a is the event immediately preceding b
Precedes(ev, a, b) ==
    /\ Before(ev, a, b)
    /\ ~\E c \in DOMAIN ev : Before(ev, a, c) /\ Before(ev, c, b)

\* h is the Asia/Kolkata wall-clock hour that contains the instant t
IsHourOf(h, t) ==
    /\ h.tz = "Asia/Kolkata"
    /\ (h.utc + KolkataOffset) % TicksPerHour = 0
    /\ h.utc <= t.utc
    /\ t.utc < h.utc + TicksPerHour

\* the hops (a, b) of the input that a row of od_flows stands for
HopsOf(ev, row) ==
    {ab \in (DOMAIN ev) \X (DOMAIN ev) :
        /\ Precedes(ev, ab[1], ab[2])
        /\ ev[ab[1]].tower_id = row.origin_tower
        /\ ev[ab[2]].tower_id = row.dest_tower
        /\ IsHourOf(row.hour, ev[ab[2]].timestamp)}

AllHops(ev) ==
    {ab \in (DOMAIN ev) \X (DOMAIN ev) : Precedes(ev, ab[1], ab[2])}

RECURSIVE SumCounts(_)
SumCounts(rows) ==
    IF rows = <<>> THEN 0 ELSE Head(rows).count + SumCounts(Tail(rows))

UsersOf(ev) == {ev[i].user_id : i \in DOMAIN ev}

EventsOfUser(ev, u) == {i \in DOMAIN ev : ev[i].user_id = u}

\* C1: every entity with N events contributes exactly N-1 flow records, one
\* per event after its first, from the tower of the same entity's
\* immediately preceding event to its own tower, in the hour that contains
\* the current event; so every row's count is the number of such hops with
\* its key, every hop has a row, and the counts add up to the number of
\* events minus the number of distinct entities.
C1_FlowsArePerEntityHops ==
    OdBuilt =>
        /\ \A u \in UsersOf(Merged) :
              Cardinality({ab \in AllHops(Merged) : Merged[ab[2]].user_id = u})
                  = Cardinality(EventsOfUser(Merged, u)) - 1
        /\ \A i \in DOMAIN Od :
              /\ Od[i].count = Cardinality(HopsOf(Merged, Od[i]))
              /\ Od[i].count >= 1
        /\ \A ab \in AllHops(Merged) :
              \E i \in DOMAIN Od : ab \in HopsOf(Merged, Od[i])
        /\ SumCounts(Od) = Len(Merged) - Cardinality(UsersOf(Merged))

\* two users interleaved in time, the second one's first event following an
\* event of the first user, and a flow counted
C1_Witness ==
    /\ OdBuilt
    /\ Cardinality(UsersOf(Merged)) = 2
    /\ Len(Merged) = 3
    /\ SumCounts(Od) = 1
    /\ \E a, b \in DOMAIN Merged :
          /\ Merged[a].user_id # Merged[b].user_id
          /\ Merged[a].timestamp.utc < Merged[b].timestamp.utc
          /\ \A c \in DOMAIN Merged : ~Before(Merged, c, b)
          /\ StrLess(Merged[a].user_id, Merged[b].user_id)

(***************************************************************************)
(* The end-to-end example: U1 at A (t=0), B (t=1h), C (t=3h).              *)
(***************************************************************************)
\* t=0, t=1h and t=3h as ticks: 06:00, 07:00 and 09:00 in Asia/Kolkata
ExampleTicks == <<1, 3, 7>>

ExampleT0 == ExampleTicks[1]

ExampleT1h == ExampleTicks[2]

ExampleT3h == ExampleTicks[3]

ExampleEvent(tower, t) ==
    [user_id |-> <<"U", "1">>, tower_id |-> <<tower>>,
     timestamp |-> [utc |-> t, tz |-> "Asia/Kolkata"]]

ExampleInput ==
    /\ OdBuilt
    /\ Exists(CdrMergedPath)
    /\ Len(Merged) = 3
    /\ {Merged[i] : i \in DOMAIN Merged} =
          {ExampleEvent("A", ExampleT0), ExampleEvent("B", ExampleT1h),
           ExampleEvent("C", ExampleT3h)}

HourAt(t) == [utc |-> t, tz |-> "Asia/Kolkata"]

FlowRow(h, o, d, n) ==
    [hour |-> h, origin_tower |-> <<o>>, dest_tower |-> <<d>>, count |-> n]

\* C3 as stated: the A->B flow is reported in hour 0, the hour of U1's first
\* event, and the B->C flow in hour 3.
C3_AsStated ==
    ExampleInput =>
        /\ Len(Od) = 2
        /\ \E i \in DOMAIN Od : Od[i] = FlowRow(HourAt(ExampleT0), "A", "B", 1)
        /\ \E i \in DOMAIN Od : Od[i] = FlowRow(HourAt(ExampleT3h), "B", "C", 1)

\* C3 amended: the example yields exactly two rows, A->B with count 1 in the
\* hour of the event at B (hour 1) and B->C with count 1 in the hour of the
\* event at C (hour 3); there is no row in hour 0, the hour of the first
\* event.
C3_ExampleFlows ==
    ExampleInput =>
        /\ Od = <<FlowRow(HourAt(ExampleT1h), "A", "B", 1),
                  FlowRow(HourAt(ExampleT3h), "B", "C", 1)>>
        /\ \A i \in DOMAIN Od : Od[i].hour # HourAt(ExampleT0)

C3_Witness == ExampleInput /\ Merged[1].tower_id = <<"C">>

(***************************************************************************)
(* Aggregated outputs: one row per (hour, group key).                      *)
(***************************************************************************)
GpsBuilt ==
    /\ ret.stage = "build_gps_speed_features"
    /\ ret.wrote = {GpsSpeedPath}

GpsMerged == fs[GpsMergedPath]

GpsSpeed == fs[GpsSpeedPath]

\* C2: in od_flows no two rows share (hour, origin_tower, dest_tower) and
\* every hop of the input has a row; in gps_speed_features no two rows share
\* (hour, grid_id) and every point of the input has a row for its hour and
\* cell.
C2_OneRowPerHourAndKey ==
    /\ OdBuilt =>
          /\ \A i, j \in DOMAIN Od :
                (/\ Od[i].hour = Od[j].hour
                 /\ Od[i].origin_tower = Od[j].origin_tower
                 /\ Od[i].dest_tower = Od[j].dest_tower) => i = j
          /\ \A ab \in AllHops(Merged) :
                \E i \in DOMAIN Od :
                    /\ IsHourOf(Od[i].hour, Merged[ab[2]].timestamp)
                    /\ Od[i].origin_tower = Merged[ab[1]].tower_id
                    /\ Od[i].dest_tower = Merged[ab[2]].tower_id
    /\ GpsBuilt =>
          /\ \A i, j \in DOMAIN GpsSpeed :
                (/\ GpsSpeed[i].hour = GpsSpeed[j].hour
                 /\ GpsSpeed[i].grid_id = GpsSpeed[j].grid_id) => i = j
          /\ \A p \in DOMAIN GpsMerged :
                \E i \in DOMAIN GpsSpeed :
                    /\ IsHourOf(GpsSpeed[i].hour, GpsMerged[p].timestamp)
                    /\ GpsSpeed[i].grid_id =
                          GridId(GpsMerged[p].latitude, GpsMerged[p].longitude)

\* two hops with the same key, summed into one row
C2_Witness ==
    /\ OdBuilt
    /\ Cardinality(AllHops(Merged)) = 2
    /\ Len(Od) = 1
    /\ Od[1].count = 2
    /\ Merged[1].timestamp # Merged[3].timestamp

(***************************************************************************)
(* Spatial aggregation.                                                    *)
(***************************************************************************)
\* the hundredth of a degree nearest to a coordinate in thousandths, a tie
\* going to the even hundredth
NearestHundredth(milli) ==
    CHOOSE c \in (milli \div 10)..((milli \div 10) + 1) :
        \/ Abs(10 * c - milli) < 5
        \/ Abs(10 * c - milli) = 5 /\ c % 2 = 0

SameRounded(p, q) ==
    /\ NearestHundredth(p.latitude) = NearestHundredth(q.latitude)
    /\ NearestHundredth(p.longitude) = NearestHundredth(q.longitude)

SameHour(p, q) ==
    \E h \in {Kolkata(t - KolkataOffset) : t \in 0..24} :
        IsHourOf(h, p.timestamp) /\ IsHourOf(h, q.timestamp)

\* the grid_id the stage gives a point
CellOf(p) == GridId(p.latitude, p.longitude)

\* C9: two points get the same grid_id exactly when both rounded coordinates
\* are equal, and the points of one cell in one hour are merged into exactly
\* one row, whose avg_speed_kmph is the arithmetic mean of their speeds.
C9_GridCellMean ==
    GpsBuilt =>
        /\ \A p, q \in DOMAIN GpsMerged :
              (CellOf(GpsMerged[p]) = CellOf(GpsMerged[q]))
                  <=> SameRounded(GpsMerged[p], GpsMerged[q])
        /\ \A p \in DOMAIN GpsMerged :
              LET mates == {q \in DOMAIN GpsMerged :
                               /\ SameRounded(GpsMerged[p], GpsMerged[q])
                               /\ SameHour(GpsMerged[p], GpsMerged[q])}
                  rows == {i \in DOMAIN GpsSpeed :
                               /\ IsHourOf(GpsSpeed[i].hour, GpsMerged[p].timestamp)
                               /\ GpsSpeed[i].grid_id = CellOf(GpsMerged[p])}
              IN  /\ Cardinality(rows) = 1
                  /\ \A i \in rows :
                        /\ GpsSpeed[i].avg_speed_kmph # NaN
                        /\ GpsSpeed[i].avg_speed_kmph[1] * Cardinality(mates)
                              = GpsSpeed[i].avg_speed_kmph[2]
                                    * SumSpeed(GpsMerged, mates)
        /\ \A i \in DOMAIN GpsSpeed :
              \E p \in DOMAIN GpsMerged :
                  /\ IsHourOf(GpsSpeed[i].hour, GpsMerged[p].timestamp)
                  /\ GpsSpeed[i].grid_id = CellOf(GpsMerged[p])

\* two points with different coordinates and speeds, at different instants of
\* one hour, in one cell: one row with the mean 35/2
C9_Witness ==
    /\ GpsBuilt
    /\ Len(GpsMerged) = 2
    /\ GpsMerged[1].latitude # GpsMerged[2].latitude
    /\ GpsMerged[1].timestamp # GpsMerged[2].timestamp
    /\ GpsMerged[1].speed_kmph # GpsMerged[2].speed_kmph
    /\ Len(GpsSpeed) = 1
    /\ GpsSpeed[1].avg_speed_kmph = <<35, 2>>

(***************************************************************************)
(* Lag and rolling features: what create_lag_and_rolling_features must     *)
(* return for a given frame.  df_raw is the frame as it stands before the  *)
(* fill (after line 59), df_ret the frame returned.  A group's time-sorted *)
(* sequence is read off the hour column, not off the order of the rows.    *)
(***************************************************************************)
FeatReturned ==
    /\ ret.stage \in {"create_lag_and_rolling_features",
                      "create_od_prediction_features",
                      "create_gps_speed_prediction_features"}
    /\ ret.printed # "File not found"

RowGroup(r) ==
    IF "grid_id" \in DOMAIN r THEN <<r.grid_id>>
    ELSE <<r.origin_tower, r.dest_tower>>

RowTarget(r) ==
    IF "grid_id" \in DOMAIN r THEN r.avg_speed_kmph ELSE Num(r.count)

\* the rows of the group of row k
OwnGroup(df, k) == {j \in DOMAIN df : RowGroup(df[j]) = RowGroup(df[k])}

\* the position, from 0, of row k in its group's time-sorted sequence
PosInGroup(df, k) ==
    Cardinality({j \in OwnGroup(df, k) : df[j].hour.utc < df[k].hour.utc})

\* the row at position pos of the group of row k
RowAtPos(df, k, pos) == CHOOSE j \in OwnGroup(df, k) : PosInGroup(df, j) = pos

\* the cell of row r in the column named by kind ("lag", "rolling_mean",
\* "rolling_std") and its lag or window p
Cell(r, kind, p) ==
    CASE kind = "lag" -> r.lag[p]
      [] kind = "rolling_mean" -> r.rolling_mean[p]
      [] kind = "rolling_std" -> r.rolling_std[p]

\* the lag / rolling columns of a row
FeatureColumns(r) ==
    ({"lag"} \X DOMAIN r.lag) \cup ({"rolling_mean"} \X DOMAIN r.rolling_mean)
        \cup ({"rolling_std"} \X DOMAIN r.rolling_std)

\* df_ret holds the rows of df_raw, in the same order
SameRows ==
    /\ Len(df_ret) = Len(df_raw)
    /\ \A k \in DOMAIN df_raw :
          /\ RowGroup(df_ret[k]) = RowGroup(df_raw[k])
          /\ df_ret[k].hour = df_raw[k].hour

\* C4: the lag-L cell of the row at position i of a group is the target of the
\* row at position i-L of the same group when that row exists, whatever the
\* hours between them, before and after the fill; before the fill it is
\* undefined when the group has fewer than L earlier rows.
C4_LagIsGroupShift ==
    FeatReturned =>
        /\ SameRows
        /\ \A k \in DOMAIN df_raw : \A l \in DOMAIN df_raw[k].lag :
              LET i == PosInGroup(df_raw, k)
              IN  IF i >= l
                  THEN LET v == RowTarget(df_raw[RowAtPos(df_raw, k, i - l)])
                       IN  df_raw[k].lag[l] = v /\ df_ret[k].lag[l] = v
                  ELSE df_raw[k].lag[l] = NaN

\* two rows of one group with an hour missing between them, a row of another
\* group between them in time, and the later row's lag 1 the earlier row's
\* target
C4_Witness ==
    /\ FeatReturned
    /\ \E j, k, o \in DOMAIN df_raw :
          /\ RowGroup(df_raw[j]) = RowGroup(df_raw[k])
          /\ RowGroup(df_raw[o]) # RowGroup(df_raw[k])
          /\ df_raw[j].hour.utc = 1
          /\ df_raw[o].hour.utc = 3
          /\ df_raw[k].hour.utc = 5
          /\ Cardinality(OwnGroup(df_raw, k)) = 2
          /\ RowTarget(df_raw[o]) # RowTarget(df_raw[j])
          /\ 1 \in DOMAIN df_raw[k].lag
          /\ df_raw[k].lag[1] = RowTarget(df_raw[j])
          /\ df_raw[j].lag[1] = NaN

\* C5: the rolling mean of window W at position i of a group is the mean of
\* the min(W, i+1) targets of the group's rows at positions i-min(W,i+1)+1..i,
\* before and after the fill; over one point the rolling standard deviation is
\* undefined before the fill.
C5_RollingMeanAndStd ==
    FeatReturned =>
        /\ SameRows
        /\ \A k \in DOMAIN df_raw : \A w \in DOMAIN df_raw[k].rolling_mean :
              LET i == PosInGroup(df_raw, k)
                  n == IF w < i + 1 THEN w ELSE i + 1
                  win == {j \in OwnGroup(df_raw, k) :
                             PosInGroup(df_raw, j) \in (i - n + 1)..i}
                  y == [j \in DOMAIN df_raw |-> RowTarget(df_raw[j])]
              IN  /\ df_raw[k].rolling_mean[w] # NaN
                  /\ FracMul(df_raw[k].rolling_mean[w], Num(n)) = FracSum(y, win)
                  /\ df_ret[k].rolling_mean[w] = df_raw[k].rolling_mean[w]
                  /\ n = 1 => df_raw[k].rolling_std[w] = NaN

\* a window of 3 at the second row of a group, next to another group: the mean
\* of two targets, 1 and 2; and a 1-point window at the first row
C5_Witness ==
    /\ FeatReturned
    /\ \E j, k, o \in DOMAIN df_raw :
          /\ RowGroup(df_raw[j]) = RowGroup(df_raw[k])
          /\ RowGroup(df_raw[o]) # RowGroup(df_raw[k])
          /\ PosInGroup(df_raw, j) = 0
          /\ PosInGroup(df_raw, k) = 1
          /\ 3 \in DOMAIN df_raw[k].rolling_mean
          /\ RowTarget(df_raw[j]) = Num(1)
          /\ RowTarget(df_raw[k]) = Num(2)
          /\ df_raw[k].rolling_mean[3] = Frac(3, 2)
          /\ df_raw[j].rolling_std[3] = NaN
          /\ df_raw[k].rolling_std[3] # NaN

\* C6: the returned frame has no undefined cell in any lag or rolling column.
C6_NoNaNAfterFill ==
    FeatReturned =>
        \A k \in DOMAIN df_ret : \A c \in FeatureColumns(df_ret[k]) :
            Cell(df_ret[k], c[1], c[2]) # NaN

\* a frame of several groups, one of a single row, with undefined lag and
\* rolling cells before the fill, the last of them in the last row
C6_Witness ==
    /\ FeatReturned
    /\ Len(df_ret) = MaxRows
    /\ \E k, o \in DOMAIN df_raw :
          /\ RowGroup(df_raw[o]) # RowGroup(df_raw[k])
          /\ Cardinality(OwnGroup(df_raw, k)) = 1
          /\ Cardinality(OwnGroup(df_raw, o)) = 2
          /\ \E l \in DOMAIN df_raw[k].lag : df_raw[k].lag[l] = NaN
          /\ \E w \in DOMAIN df_raw[k].rolling_std : df_raw[k].rolling_std[w] = NaN
    /\ \E c \in FeatureColumns(df_raw[Len(df_raw)]) :
          Cell(df_raw[Len(df_raw)], c[1], c[2]) = NaN

\* C7: a lag / rolling column that is undefined in every row of a group
\* before the fill holds 0 in every row of that group in the returned frame.
C7_UndefinedGroupColumnIsZero ==
    FeatReturned =>
        \A k \in DOMAIN df_raw : \A c \in FeatureColumns(df_raw[k]) :
            (\A j \in OwnGroup(df_raw, k) : Cell(df_raw[j], c[1], c[2]) = NaN)
                => Cell(df_ret[k], c[1], c[2]) = Num(0)

\* the cell a group-local fill leaves at row k of column c: the most recent
\* defined cell of the group at or before the row, else the nearest later
\* defined cell of the group, else 0
GroupLocalFill(df, k, c) ==
    LET i == PosInGroup(df, k)
        known == {j \in OwnGroup(df, k) : Cell(df[j], c[1], c[2]) # NaN}
        earlier == {j \in known : PosInGroup(df, j) <= i}
        later == {j \in known : PosInGroup(df, j) > i}
    IN  IF earlier # {}
        THEN Cell(df[CHOOSE j \in earlier :
                        \A m \in earlier : PosInGroup(df, m) <= PosInGroup(df, j)],
                  c[1], c[2])
        ELSE IF later # {}
        THEN Cell(df[CHOOSE j \in later :
                        \A m \in later : PosInGroup(df, j) <= PosInGroup(df, m)],
                  c[1], c[2])
        ELSE Num(0)

\* the rows of the group of row k, filled with no other group in the frame
FilledAlone(df, k) ==
    LET own == SelectRows(df, OwnGroup(df, k))
    IN  LagRollingFilled(own, [j \in DOMAIN own |-> RowGroup(own[j])],
                         SetToSeq(DOMAIN df[k].lag),
                         SetToSeq(DOMAIN df[k].rolling_mean))

\* C8: every lag / rolling cell of the returned frame is the group-local fill
\* of its column, and the returned rows of a group are what the fill returns
\* when the rows of every other group are removed.
C8_FillIsGroupLocal ==
    FeatReturned =>
        \A k \in DOMAIN df_raw :
            /\ \A c \in FeatureColumns(df_raw[k]) :
                  Cell(df_ret[k], c[1], c[2]) = GroupLocalFill(df_raw, k, c)
            /\ df_ret[k] = FilledAlone(df_raw, k)[PosInGroup(df_raw, k) + 1]

(***************************************************************************)
(* Missing inputs: what a stage does when the file it reads is absent,     *)
(* and what the __main__ block that called it does next.                   *)
(***************************************************************************)
Stages ==
    {"merge_cdr_chunks", "merge_gps_chunks",
     "build_od_flows", "build_gps_speed_features",
     "create_od_prediction_features", "create_gps_speed_prediction_features",
     "detect_hourly_demand_anomalies", "detect_gps_speed_anomalies"}

ScriptOf(stage) ==
    CASE stage \in {"merge_cdr_chunks", "merge_gps_chunks"} -> "join_data"
      [] stage \in {"build_od_flows", "build_gps_speed_features"} ->
            "feature_engineering"
      [] stage \in {"create_od_prediction_features",
                    "create_gps_speed_prediction_features"} -> "data_preprocessor"
      [] stage \in {"detect_hourly_demand_anomalies",
                    "detect_gps_speed_anomalies"} -> "anomaly_detector"

\* the position of the stage's call in its script's __main__ block
PosOf(stage) ==
    IF stage \in {"merge_cdr_chunks", "build_od_flows",
                  "create_od_prediction_features",
                  "detect_hourly_demand_anomalies"}
    THEN 1 ELSE 2

\* the stage's upstream input is not there
InputAbsent(stage) ==
    CASE stage = "merge_cdr_chunks" -> Glob("cdr_cleaned") = {}
      [] stage = "merge_gps_chunks" -> Glob("gps_cleaned") = {}
      [] stage = "build_od_flows" -> CdrMergedPath \notin DOMAIN fs
      [] stage = "build_gps_speed_features" -> GpsMergedPath \notin DOMAIN fs
      [] stage \in {"create_od_prediction_features",
                    "detect_hourly_demand_anomalies"} -> OdFlowsPath \notin DOMAIN fs
      [] stage \in {"create_gps_speed_prediction_features",
                    "detect_gps_speed_anomalies"} -> GpsSpeedPath \notin DOMAIN fs

\* this step is the call of the stage by its script's __main__ block
Called(stage) ==
    /\ caller' # caller
    /\ caller'.script = ScriptOf(stage)
    /\ caller'.pc = PosOf(stage) + 1

MissingInputMessages ==
    {"File not found", "Directory not found",
     "No CDR chunks found", "No GPS chunks found"}

DetectorOutputs(stage) ==
    IF stage = "detect_hourly_demand_anomalies"
    THEN {HourlyCsvPath, HourlyModelPath, HourlyPlotPath}
    ELSE {GpsCsvPath, GpsModelPath, GpsPlotPath}

\* C11: the call that ended last has either failed and written nothing, or
\* succeeded and written its complete output: no call has raised after
\* writing some of its files, and no detector has returned with a part of its
\* files written.
C11_NoPartialOutput ==
    /\ ret.how = "raise" => ret.wrote = {}
    /\ (/\ ret.stage \in {"detect_hourly_demand_anomalies",
                          "detect_gps_speed_anomalies"}
        /\ ret.how = "return"
        /\ ret.wrote # {}) => ret.wrote = DetectorOutputs(ret.stage)

(***************************************************************************)
(* C12: the rows the detectors write.                                      *)
(***************************************************************************)
HourlyScored ==
    /\ ret.stage = "detect_hourly_demand_anomalies"
    /\ HourlyCsvPath \in ret.wrote

GpsScored ==
    /\ ret.stage = "detect_gps_speed_anomalies"
    /\ GpsCsvPath \in ret.wrote

HourlyCsv == fs[HourlyCsvPath]

GpsCsv == fs[GpsCsvPath]

\* is_anomaly is a boolean and anomaly_score is that same label written as
\* -1 (anomaly) or +1 (normal)
ScoreIsLabel(r) ==
    /\ r.is_anomaly \in BOOLEAN
    /\ r.anomaly_score \in {1, -1}
    /\ r.is_anomaly <=> (r.anomaly_score = -1)

\* hourly_anomalies has one row per hour of od_flows, with the summed count of
\* the hour
OneRowPerHour ==
    /\ \A j \in DOMAIN Od : \E i \in DOMAIN HourlyCsv : HourlyCsv[i].hour = Od[j].hour
    /\ \A i \in DOMAIN HourlyCsv :
          /\ \E j \in DOMAIN Od : Od[j].hour = HourlyCsv[i].hour
          /\ HourlyCsv[i].total_count =
                 SumCount(Od, {j \in DOMAIN Od : Od[j].hour = HourlyCsv[i].hour})
          /\ \A k \in DOMAIN HourlyCsv : HourlyCsv[k].hour = HourlyCsv[i].hour => k = i

\* gps_speed_anomalies has the rows of gps_speed_features, one for one
OneRowPerSpeedRow ==
    /\ Len(GpsCsv) = Len(GpsSpeed)
    /\ \A i \in DOMAIN GpsCsv :
          /\ GpsCsv[i].hour = GpsSpeed[i].hour
          /\ GpsCsv[i].grid_id = GpsSpeed[i].grid_id
          /\ GpsCsv[i].avg_speed_kmph = GpsSpeed[i].avg_speed_kmph

PairBefore(a, b) ==
    \/ StrLess(a.origin_tower, b.origin_tower)
    \/ /\ a.origin_tower = b.origin_tower
       /\ StrLess(a.dest_tower, b.dest_tower)

SamePair(a, b) ==
    a.origin_tower = b.origin_tower /\ a.dest_tower = b.dest_tower

\* every row is strictly before the next one: by tower pair, then by hour
OdKeyThenTime ==
    \A i \in 1..(Len(Od) - 1) :
       \/ PairBefore(Od[i], Od[i + 1])
       \/ SamePair(Od[i], Od[i + 1]) /\ Od[i].hour.utc < Od[i + 1].hour.utc

\* by hour, then by tower pair
OdTimeThenKey ==
    \A i \in 1..(Len(Od) - 1) :
       \/ Od[i].hour.utc < Od[i + 1].hour.utc
       \/ Od[i].hour = Od[i + 1].hour /\ PairBefore(Od[i], Od[i + 1])

GpsKeyThenTime ==
    \A i \in 1..(Len(GpsSpeed) - 1) :
       \/ StrLess(GpsSpeed[i].grid_id, GpsSpeed[i + 1].grid_id)
       \/ /\ GpsSpeed[i].grid_id = GpsSpeed[i + 1].grid_id
          /\ GpsSpeed[i].hour.utc < GpsSpeed[i + 1].hour.utc

GpsTimeThenKey ==
    \A i \in 1..(Len(GpsSpeed) - 1) :
       \/ GpsSpeed[i].hour.utc < GpsSpeed[i + 1].hour.utc
       \/ /\ GpsSpeed[i].hour = GpsSpeed[i + 1].hour
          /\ StrLess(GpsSpeed[i].grid_id, GpsSpeed[i + 1].grid_id)

\* C13 as stated: the rows of od_flows are in ascending order of
\* (origin_tower, dest_tower) and then hour, those of gps_speed_features in
\* ascending order of grid_id and then hour.
C13_AsStated ==
    /\ OdBuilt => OdKeyThenTime
    /\ GpsBuilt => GpsKeyThenTime

\* C13, amended: the rows of od_flows are in strictly ascending order of hour
\* and then (origin_tower, dest_tower), those of gps_speed_features in
\* strictly ascending order of hour and then grid_id, whatever the order of
\* the input events; the order is fixed by the set of rows.
C13_SortedByTimeThenKey ==
    /\ OdBuilt => OdTimeThenKey
    /\ GpsBuilt => GpsTimeThenKey

\* od_flows holds a later flow of a tower pair that sorts first after an
\* earlier flow of a pair that sorts last, from events that were not in time
\* order in the merged file
C13_Witness ==
    /\ OdBuilt
    /\ \E i, j \in DOMAIN Od :
          /\ i < j
          /\ Od[i].hour.utc < Od[j].hour.utc
          /\ PairBefore(Od[j], Od[i])
    /\ \E i, j \in DOMAIN Merged :
          /\ i < j
          /\ Merged[j].timestamp.utc < Merged[i].timestamp.utc

(***************************************************************************)
(* C14: the files a stage leaves alone.                                    *)
(***************************************************************************)
\* the files the call that ends at position pc of script creates or
\* overwrites; streamer.py makes the two chunk folders before its first call
OwnOutput(script, pc, p) ==
    CASE script = "streamer" /\ pc = 2 -> p[1] = "cdr" \/ p = <<"gps", <<>>>>
      [] script = "streamer" /\ pc = 3 -> p[1] = "gps" \/ p = <<"cdr", <<>>>>
      [] script = "transform" /\ pc = 2 -> p[1] = "cdr_cleaned"
      [] script = "transform" /\ pc = 3 -> p[1] = "gps_cleaned"
      [] script = "join_data" /\ pc = 2 -> p = <<"processed", <<"cdr_merged">>>>
      [] script = "join_data" /\ pc = 3 -> p = <<"processed", <<"gps_merged">>>>
      [] script = "feature_engineering" /\ pc = 2 ->
            p = <<"processed", <<"od_flows">>>>
      [] script = "feature_engineering" /\ pc = 3 ->
            p = <<"processed", <<"gps_speed_features">>>>
      [] script = "data_preprocessor" /\ pc = 2 ->
            p = <<"processed", <<"od_flows_engineered">>>>
      [] script = "data_preprocessor" /\ pc = 3 ->
            p = <<"processed", <<"gps_speed_features_engineered">>>>
      [] script = "anomaly_detector" /\ pc = 2 ->
            p \in {<<"processed", <<"hourly_anomalies">>>>,
                   <<"processed", <<"isolation_forest_model">>>>,
                   <<"processed", <<"hourly_anomalies_plot">>>>}
      [] script = "anomaly_detector" /\ pc = 3 ->
            p \in {<<"processed", <<"gps_speed_anomalies">>>>,
                   <<"processed", <<"gps_isolation_forest_model">>>>,
                   <<"processed", <<"gps_speed_anomalies_plot">>>>}
      [] OTHER -> FALSE

\* C14: a step of any stage creates, overwrites or deletes no file but the
\* stage's own output: every other file, the stage's inputs and the outputs
\* of the other stages among them, is there after the step as it was before.
C14_StagesWriteOwnOutputOnly ==
    [][\A p \in (DOMAIN fs) \cup (DOMAIN fs') :
          ~OwnOutput(caller'.script, caller'.pc, p) =>
              /\ p \in DOMAIN fs
              /\ p \in DOMAIN fs'
              /\ fs'[p] = fs[p]]_vars

\* every stage has run on the CDR side and the hourly detector has just
\* written its labels; od_flows holds the aggregated columns only, and the
\* raw file, the chunk, the cleaned chunk and the merged file are in place
C14_Witness ==
    /\ HourlyScored
    /\ \E i \in DOMAIN HourlyCsv : HourlyCsv[i].is_anomaly
    /\ Exists(RawCdrPath)
    /\ Exists(ChunkPath("cdr", 0))
    /\ Exists(Path("cdr_cleaned", CleanedName(<<ChunkStem(0)>>)))
    /\ Exists(CdrMergedPath)
    /\ Exists(OdEngineeredPath)
    /\ Od # <<>>
    /\ \A i \in DOMAIN Od :
          DOMAIN Od[i] = {"hour", "origin_tower", "dest_tower", "count"}

(***************************************************************************)
(* C15: chunks and the merged file.                                        *)
(***************************************************************************)
CdrMergedNow ==
    /\ ret.stage = "merge_cdr_chunks"
    /\ ret.wrote = {CdrMergedPath}

GpsMergedNow ==
    /\ ret.stage = "merge_gps_chunks"
    /\ ret.wrote = {GpsMergedPath}

\* how often the row r occurs in rows
CountIn(rows, r) == Cardinality({i \in DOMAIN rows : rows[i] = r})

\* how often it occurs in the files of paths, taken together
RECURSIVE CountInFiles(_, _)
CountInFiles(paths, r) ==
    IF paths = {} THEN 0
    ELSE LET p == CHOOSE x \in paths : TRUE
         IN  CountIn(fs[p], r) + CountInFiles(paths \ {p}, r)

RowsIn(rows) == {rows[i] : i \in DOMAIN rows}

RowsInFiles(paths) == UNION {RowsIn(fs[p]) : p \in paths}

\* merged holds every row of the files of folder as often as they hold it
\* together, and no other row
IsUnionOfChunks(merged, folder) ==
    \A r \in RowsIn(merged) \cup RowsInFiles(Glob(folder)) :
       CountIn(merged, r) = CountInFiles(Glob(folder), r)

RECURSIVE LenOfFiles(_)
LenOfFiles(paths) ==
    IF paths = {} THEN 0
    ELSE LET p == CHOOSE x \in paths : TRUE
         IN  Len(fs[p]) + LenOfFiles(paths \ {p})

\* C15: the merged file holds exactly the multiset union of the rows of the
\* cleaned chunk files, and od_flows is computed over the merged file: each
\* hop of an entity in the merged file has its row, and the counts add up
\* to the events of all cleaned chunks minus the entities in them, however
\* the streamer has cut the events into chunks.
C15_MergedIsUnionOfChunks ==
    /\ CdrMergedNow => IsUnionOfChunks(Merged, "cdr_cleaned")
    /\ GpsMergedNow => IsUnionOfChunks(GpsMerged, "gps_cleaned")
    /\ OdBuilt =>
          /\ \A ab \in AllHops(Merged) :
                \E i \in DOMAIN Od : ab \in HopsOf(Merged, Od[i])
          /\ SumCounts(Od) = LenOfFiles(Glob("cdr_cleaned"))
                                - Cardinality(UsersOf(Merged))
          /\ RowsIn(Merged) = RowsInFiles(Glob("cdr_cleaned"))

\* the streamer has cut the events of one user into two chunks, tower A in
\* the first and tower B in the second, and od_flows holds the flow from A
\* to B across the cut
C15_Witness ==
    /\ OdBuilt
    /\ LET first == Path("cdr_cleaned", CleanedName(<<ChunkStem(0)>>))
           second == Path("cdr_cleaned", CleanedName(<<ChunkStem(1)>>))
       IN  /\ Exists(first)
           /\ Exists(second)
           /\ \A i \in DOMAIN fs[first] : fs[first][i].tower_id = <<"A">>
           /\ \A i \in DOMAIN fs[second] : fs[second][i].tower_id = <<"B">>
           /\ Len(fs[first]) = CHUNK_SIZE
           /\ UsersOf(fs[first]) = UsersOf(fs[second])
    /\ \E i \in DOMAIN Od :
          Od[i].origin_tower = <<"A">> /\ Od[i].dest_tower = <<"B">>
    /\ SumCounts(Od) = CHUNK_SIZE

(***************************************************************************)
(* C16: a second run over the same raw files.                              *)
(***************************************************************************)
PipelineScripts == {"streamer", "transform", "join_data", "feature_engineering"}

\* the chunk folder of kind holds what streamer.py makes of the raw file: the
\* chunks up to the first one that does not parse, and no other file
ChunksUpToDate(kind, raw_file) ==
    /\ DirExists(kind)
    /\ IF ~Exists(raw_file) THEN Glob(kind) = {}
       ELSE LET rows == fs[raw_file]
                n == ChunksBeforeError(rows, 0, NumChunks(rows))
            IN  /\ Glob(kind) = {ChunkPath(kind, i) : i \in 0..(n - 1)}
                /\ \A i \in 0..(n - 1) :
                      fs[ChunkPath(kind, i)] = LightCleaning(kind, CsvChunk(rows, i))

\* the cleaned folder holds one cleaned file per chunk, and no other file
CdrCleanedUpToDate ==
    /\ Glob("cdr") # {} => DirExists("cdr_cleaned")
    /\ Glob("cdr_cleaned") = {Path("cdr_cleaned", CleanedName(p[2])) : p \in Glob("cdr")}
    /\ \A p \in Glob("cdr") :
          fs[Path("cdr_cleaned", CleanedName(p[2]))] = TransformCdrRows(fs[p])

GpsCleanedUpToDate ==
    /\ Glob("gps") # {} => DirExists("gps_cleaned")
    /\ Glob("gps_cleaned") = {Path("gps_cleaned", CleanedName(p[2])) : p \in Glob("gps")}
    /\ \A p \in Glob("gps") :
          fs[Path("gps_cleaned", CleanedName(p[2]))] = TransformGpsRows(fs[p])

\* the merged and the aggregated files are there wherever their input is,
\* and are what their stage makes of it
AggregatesUpToDate ==
    /\ Exists(CdrMergedPath) <=> Glob("cdr_cleaned") # {}
    /\ Exists(CdrMergedPath) => Merged = MergedRows("cdr_cleaned")
    /\ Exists(OdFlowsPath) <=> Exists(CdrMergedPath)
    /\ Exists(OdFlowsPath) => Od = OdGroupSize(OdEventRows(Merged))
    /\ Exists(GpsMergedPath) <=> Glob("gps_cleaned") # {}
    /\ Exists(GpsMergedPath) => GpsMerged = MergedRows("gps_cleaned")
    /\ Exists(GpsSpeedPath) <=> Exists(GpsMergedPath)
    /\ Exists(GpsSpeedPath) => GpsSpeed = GpsGroupMean(GpsPointRows(GpsMerged))

\* the files are those a run of streamer.py, transform.py, join_data.py and
\* feature_engineering.py, in this order, leaves behind
FirstRunDone ==
    /\ ChunksUpToDate("cdr", RawCdrPath)
    /\ ChunksUpToDate("gps", RawGpsPath)
    /\ CdrCleanedUpToDate
    /\ GpsCleanedUpToDate
    /\ AggregatesUpToDate

\* C16: once the four stages have run in dependency order over the raw
\* files, every further run of any of them over the same raw files rewrites
\* its files with the content they have: the set of files and the content of
\* each is after the step what it was before, so no file is added and no row
\* is counted a second time.
C16_RerunChangesNothing ==
    [][(FirstRunDone /\ caller'.script \in PipelineScripts) => fs' = fs]_vars

\* streamer.py has run to its end again after a complete run: the raw CDR
\* file makes two chunks, od_flows is there with its flows, and the files
\* are those of the first run
C16_Witness ==
    /\ FirstRunDone
    /\ caller.script = "streamer"
    /\ caller.exit = "done"
    /\ Len(caller.returns) >= 1
    /\ caller.returns[1].wrote = {ChunkPath("cdr", 0), ChunkPath("cdr", 1)}
    /\ Exists(OdFlowsPath)
    /\ SumCounts(Od) = Len(fs[RawCdrPath]) - 1
    /\ Len(Merged) = Len(fs[RawCdrPath])

====
